---- MODULE Spec2Model ----
(***************************************************************************)
(* redis-vault: the backup manager (role decision, one backup cycle,      *)
(* retention cleanup, scheduler loop) and the two storage backends.       *)
(*                                                                         *)
(* The repository holds two iterations of the manager: src/backup.rs (the *)
(* metrics-instrumented one) and the one inlined in src/main.rs.  The     *)
(* configuration field impl selects which one runs.                       *)
(***************************************************************************)
EXTENDS Integers, Sequences, FiniteSets, TLC

\* ------------------------------------------------------------------ bounds
MaxCycles == 2       \* backup cycles started per run
MaxNow == 3          \* last wall-clock second of a run
MaxKeepLast == 2     \* largest retention.keep_last
MaxDuration == 1     \* largest retention.keep_duration, in seconds
PageSize == 2        \* objects per listing page served by the object store
InitNow == 2         \* wall-clock second at which the process starts
MaxInterval == 4     \* longest backup.interval of a looping run, in ticks
MaxDelay == 2        \* longest non-zero backup.initial_delay, in ticks
MaxListed == 4       \* records up to which a listing that starts over is followed
MaxCycleTicks == 5   \* longest backup cycle of a timed run, in ticks
MaxRequests == 1     \* HTTP requests handled by the metrics server per run

\* ------------------------------------------------------------ text helpers
Min(a, b) == IF a < b THEN a ELSE b

Range(seq) == {seq[n] : n \in DOMAIN seq}

\* Characters are one-character strings; a text is a sequence of characters.
\* Alphabet lists the characters used, in byte order ('/' < digits < '_' < letters).
Alphabet == <<".rdb", "/", "0", "1", "2", "3", "4", "5", "6", "7", "8", "9", "_", "a", "b", "p">>

Rank(c) == CHOOSE i \in DOMAIN Alphabet : Alphabet[i] = c

Digits == <<"0", "1", "2", "3", "4", "5", "6", "7", "8", "9">>

StartsWith(text, pre) ==
    /\ Len(pre) <= Len(text)
    /\ SubSeq(text, 1, Len(pre)) = pre

RECURSIVE LexLess(_, _)
LexLess(a, b) ==
    IF a = <<>> THEN b # <<>>
    ELSE IF b = <<>> THEN FALSE
    ELSE IF Head(a) = Head(b) THEN LexLess(Tail(a), Tail(b))
    ELSE Rank(Head(a)) < Rank(Head(b))

\* str::trim_end_matches('/')
RECURSIVE trim_end_matches(_)
trim_end_matches(text) ==
    IF text # <<>> /\ text[Len(text)] = "/"
    THEN trim_end_matches(SubSeq(text, 1, Len(text) - 1))
    ELSE text

\* ------------------------------------------------------------ configuration
\* storage prefix and redis.node_name of this node (config.rs defaults, shortened)
prefix == <<"p", "/">>
node_name == <<"a">>

TicksPerSecond == 2  \* SystemTime resolution below one second, in ticks

\* retention.keep_duration, an Option<String>: None, Some(text that
\* humantime::parse_duration rejects), or Some(text that parses to secs seconds)
NoDuration == [some |-> FALSE, parses |-> FALSE, secs |-> 0]
BadDuration == [some |-> TRUE, parses |-> FALSE, secs |-> 0]
KeepDurations ==
    {NoDuration, BadDuration}
        \cup {[some |-> TRUE, parses |-> TRUE, secs |-> d] : d \in 0 .. MaxDuration}

\* backup.interval and backup.initial_delay, duration strings: what
\* humantime::parse_duration makes of them (ticks: the Duration, when it parses)
BadInterval == [parses |-> FALSE, ticks |-> 0]
OneSecond == [parses |-> TRUE, ticks |-> TicksPerSecond]
NoDelay == [parses |-> TRUE, ticks |-> 0]
LoopIntervals == {[parses |-> TRUE, ticks |-> d] : d \in 0 .. MaxInterval}

Configs ==
    [ impl : {"backup", "main"},
      interval : {BadInterval, OneSecond},
      initial_delay : {BadInterval, NoDelay},
      backup_master : BOOLEAN,
      backup_replica : BOOLEAN,
      keep_last : 0 .. MaxKeepLast,
      keep_duration : KeepDurations,
      storage : {"S3", "Gcs"} ]

VARIABLES
    config,             \* Config, resolved at startup
    once,               \* the --once argument of run
    redis_conn,         \* BackupManager.redis_conn is Some
    omits_token,        \* the object store sends truncated pages without a token
    metrics_enabled,    \* the metrics HTTP server is serving requests
    now,                \* wall clock, whole seconds (Utc::now / server clock)
    dump,               \* the dump file: [exists, mtime in ticks]
    store,              \* the bucket: set of [key, timestamp]
    info,               \* the INFO replication reply the database gives while
                        \* should_backup runs (<<>> outside of it)
    pc,                 \* position of the scheduler task
    next_interval,      \* run: next_interval, in seconds (0 while not computed)
    slept,              \* run: ticks slept by the initial time::sleep so far
    metrics,            \* the Metrics counters, histogram counts and gauge
    modified,           \* perform_backup: metadata.modified()
    key,                \* perform_backup: the object key
    continuation_token, \* S3Storage::list: continuation_token
    backups,            \* list: the records read so far; cleanup: the sorted listing
    keep_indices,       \* cleanup_old_backups: keep_indices
    cutoff,             \* cleanup_old_backups: cutoff (0 while not computed)
    i,                  \* cleanup_old_backups: position of the delete loop
    deleted_count,      \* cleanup_old_backups: deleted_count
    should,             \* what should_backup returned in this cycle
    result,             \* what the last perform_backup returned
    cycles,             \* number of perform_backup calls so far
    trace,              \* external calls made by the current cycle, in order
    hist,               \* [modified, key] of every key built so far
    write_guard,        \* the scheduler task holds a write guard on the metrics
    requests,           \* number of HTTP requests handled so far
    http_response,      \* the last HTTP response
    subsec,             \* wall clock, ticks into the second `now`
    runs                \* timed runs: [start, finish] of every cycle, in ticks

vars == <<config, once, redis_conn, omits_token, metrics_enabled, write_guard, requests, http_response, subsec, runs, now, dump, store, info, pc, next_interval, slept, metrics, modified, key,
          continuation_token, backups, keep_indices, cutoff, i, deleted_count, should,
          result, cycles, trace, hist>>

inputs == <<config, once, redis_conn, omits_token, metrics_enabled>>
http == <<requests, http_response>>
timing == <<subsec, runs>>
locals == <<modified, key, continuation_token, backups, keep_indices, cutoff, i,
            deleted_count>>

\* --------------------------------------------------------- role detection
\* An INFO reply is a sequence of lines; a line is the sequence of its
\* ':'-separated fields; a field is a sequence of tokens (" " is whitespace).
InfoReplies ==
    { << <<<<"# Replication">>>>, <<<<"role">>, <<"master">>>>, <<<<"connected_slaves">>, <<"0">>>> >>,
      << <<<<"# Replication">>>>, <<<<"role">>, <<"slave">>>> >>,
      << <<<<"role">>, <<"replica", " ">>>> >>,
      << <<<<"role">>, <<"MASTER">>>> >>,
      << <<<<"role">>, <<"Slave">>>> >>,
      << <<<<"role">>, <<"sentinel">>>> >>,
      << <<<<"# Replication">>>> >>,
      << >> }

\* str::trim
RECURSIVE trim(_)
trim(field) ==
    IF field # <<>> /\ Head(field) = " " THEN trim(Tail(field))
    ELSE IF field # <<>> /\ field[Len(field)] = " " THEN trim(SubSeq(field, 1, Len(field) - 1))
    ELSE field

\* line.starts_with("role:")
IsRoleLine(line) == Len(line) >= 2 /\ line[1] = <<"role">>

\* the match on the role text
role_token(role) ==
    CASE role = <<"master">> -> "Master"
      [] role = <<"slave">> \/ role = <<"replica">> -> "Replica"
      [] OTHER -> "Unknown"

\* get_redis_role, given the reply of a successful INFO query
get_redis_role(reply) ==
    LET roleLines == {n \in DOMAIN reply : IsRoleLine(reply[n])}
    IN  IF roleLines = {} THEN "Unknown"
        ELSE LET first == CHOOSE n \in roleLines : \A m \in roleLines : n <= m
             IN  role_token(trim(reply[first][2]))

\* mutant: a failed query counts as an undetermined role
role_result_unknown(ok, reply) == IF ok THEN get_redis_role(reply) ELSE "Unknown"

\* get_redis_role with its query: a failed query is an error, not a role
role_result(ok, reply) == IF ok THEN get_redis_role(reply) ELSE "Err"

\* BackupManager::new: a connection is opened only when the flags differ
needs_redis_conn(cfg) == cfg.backup_master # cfg.backup_replica

\* should_backup: the short circuit taken before any query
always_backup(cfg) == cfg.backup_master /\ cfg.backup_replica

\* mutant: the role is queried before the flags are looked at
should_backup_start_query(cfg, conn) == "info"

\* should_backup: where it goes first: past the query when both flags are set
\* or when no connection was opened, to the query otherwise
should_backup_start(cfg, conn) ==
    IF always_backup(cfg) THEN "exists"
    ELSE IF conn THEN "info"
    ELSE "exists"

\* mutant: an undetermined role skips the backup
role_decision_fail_closed(cfg, role) ==
    CASE role = "Master" -> cfg.backup_master
      [] role = "Replica" -> cfg.backup_replica
      [] OTHER -> FALSE

\* should_backup: the match on the detected role
role_decision(cfg, role) ==
    CASE role = "Master" -> cfg.backup_master
      [] role = "Replica" -> cfg.backup_replica
      [] OTHER -> TRUE

\* mutant: the decision is not looked at
should_backup_after_proceeds(cfg, role) == IF role = "Err" THEN "error" ELSE "true"

\* should_backup after the query: Ok(true), Ok(false) or the query's error
should_backup_after(cfg, role) ==
    IF role = "Err" THEN "error"
    ELSE IF role_decision(cfg, role) THEN "true"
    ELSE "false"

\* ---------------------------------------------------------------- the key
\* humantime::format_rfc3339_seconds: whole seconds, fixed width
format_rfc3339_seconds(mtime) == <<Digits[(mtime \div TicksPerSecond) + 1]>>

\* Utc::now().format("%Y%m%d_%H%M%S")
format_now(t) == <<Digits[t + 1]>>

\* modified.duration_since(UNIX_EPOCH)?.as_secs()
as_secs(mtime) == <<Digits[(mtime \div TicksPerSecond) + 1]>>

\* backup.rs: "{prefix}/{node_name}_{rfc3339(modified)}.rdb"
backup_key(mtime) ==
    trim_end_matches(prefix) \o <<"/">> \o node_name \o <<"_">>
        \o format_rfc3339_seconds(mtime) \o <<".rdb">>

\* main.rs: "{prefix}/{node_name}_{now}_{modified secs}.rdb"
main_key(t, mtime) ==
    trim_end_matches(prefix) \o <<"/">> \o node_name \o <<"_">>
        \o format_now(t) \o <<"_">> \o as_secs(mtime) \o <<".rdb">>

make_key(impl, t, mtime) == IF impl = "backup" THEN backup_key(mtime) ELSE main_key(t, mtime)

\* cleanup_old_backups: "{prefix}/{node_name}"
node_prefix == trim_end_matches(prefix) \o <<"/">> \o node_name

\* ------------------------------------------------------------ object store
\* the objects of the bucket whose key starts with pre
Under(objs, pre) == {o \in objs : StartsWith(o.key, pre)}

\* the service lists objects in ascending key order
RECURSIVE InKeyOrder(_)
InKeyOrder(objs) ==
    IF objs = {} THEN <<>>
    ELSE LET least == CHOOSE o \in objs : \A q \in objs \ {o} : LexLess(o.key, q.key)
         IN  <<least>> \o InKeyOrder(objs \ {least})

\* what remains to be listed after the object named by token (<<>>: no token)
Remaining(objs, pre, token) ==
    IF token = <<>> THEN Under(objs, pre)
    ELSE {o \in Under(objs, pre) : LexLess(token, o.key)}

\* one ListObjectsV2 / objects.list response: at most PageSize objects, whether
\* more remain, and the token that continues after this page
ListResponse(objs, pre, token) ==
    LET rest == InKeyOrder(Remaining(objs, pre, token))
        page == SubSeq(rest, 1, Min(PageSize, Len(rest)))
    IN  [ contents |-> page,
          is_truncated |-> Len(rest) > PageSize,
          next_token |-> IF Len(rest) > PageSize THEN page[Len(page)].key ELSE <<>> ]

\* the response as the client sees it: response.next_continuation_token is an
\* Option, and a store that omits it leaves None on a truncated page
Served(response, omits) ==
    IF omits /\ response.is_truncated THEN [response EXCEPT !.next_token = <<>>]
    ELSE response

\* S3Storage::list, loop body: whether another request follows this response
s3_continues(response) == response.is_truncated

\* GcsStorage::list: the single request's items are the result
gcs_continues(response) == FALSE

list_continues(storage, response) ==
    IF storage = "S3" THEN s3_continues(response) ELSE gcs_continues(response)

\* put_object / upload_object: overwrite-if-exists, stamped by the server
put_object(objs, k, t) == {o \in objs : o.key # k} \cup {[key |-> k, timestamp |-> t]}

\* delete_object
delete_object(objs, k) == {o \in objs : o.key # k}

\* ---------------------------------------------------------------- retention
\* mutant: the comparison is the other way round, oldest first
RECURSIVE sort_by_oldest_first(_)
sort_by_oldest_first(seq) ==
    IF seq = <<>> THEN <<>>
    ELSE LET front == sort_by_oldest_first(SubSeq(seq, 1, Len(seq) - 1))
             last == seq[Len(seq)]
             ahead == Cardinality({n \in DOMAIN front : front[n].timestamp <= last.timestamp})
         IN  SubSeq(front, 1, ahead) \o <<last>> \o SubSeq(front, ahead + 1, Len(front))

\* backups.sort_by(|a, b| b.timestamp.cmp(&a.timestamp)): stable, newest first
RECURSIVE sort_by(_)
sort_by(seq) ==
    IF seq = <<>> THEN <<>>
    ELSE LET front == sort_by(SubSeq(seq, 1, Len(seq) - 1))
             last == seq[Len(seq)]
             ahead == Cardinality({n \in DOMAIN front : front[n].timestamp >= last.timestamp})
         IN  SubSeq(front, 1, ahead) \o <<last>> \o SubSeq(front, ahead + 1, Len(front))

\* mutant: the range stops one short
keep_last_indices_short(keep_last, len) == 1 .. (Min(keep_last, len) - 1)

\* mutant: the range is inclusive
keep_last_indices_inclusive(keep_last, len) == 1 .. Min(keep_last + 1, len)

\* for i in 0..keep_last.min(backups.len())   (indices are 1-based here)
keep_last_indices(keep_last, len) == 1 .. Min(keep_last, len)

\* Utc::now() - duration
cutoff_of(t, duration) == t - duration

\* mutant: a record at the cutoff is kept
keep_duration_indices_inclusive(listed, limit) ==
    {n \in DOMAIN listed : listed[n].timestamp >= limit}

\* if backup.timestamp > cutoff { keep_indices.insert(i) }
keep_duration_indices(listed, limit) ==
    {n \in DOMAIN listed : listed[n].timestamp > limit}

\* keep_indices as computed by cleanup_old_backups for a parsable configuration
keep_set(listed, keep_last, keep_duration, t) ==
    keep_last_indices(keep_last, Len(listed))
        \cup (IF ~keep_duration.some THEN {}
              ELSE keep_duration_indices(listed, cutoff_of(t, keep_duration.secs)))

\* the delete loop: the next index at or after from that is not kept (0: none)
next_victim(listed, keep, from) ==
    LET left == {n \in DOMAIN listed : n >= from /\ n \notin keep}
    IN  IF left = {} THEN 0 ELSE CHOOSE n \in left : \A m \in left : n <= m

\* ------------------------------------------------------------------- state
NoMetrics ==
    [ backups_total |-> 0, backups_successful |-> 0, backups_failed |-> 0,
      backup_size_bytes |-> 0, backup_duration_seconds |-> 0,
      last_backup_timestamp |-> 0,
      storage_uploads_total |-> 0, storage_deletes_total |-> 0,
      cleanup_operations_total |-> 0, backups_deleted_total |-> 0 ]

\* objects left in the bucket by earlier runs of this node, oldest first
PreObjects ==
    << [key |-> backup_key(0), timestamp |-> 0],
       [key |-> main_key(1, 0), timestamp |-> 1],
       [key |-> backup_key(TicksPerSecond), timestamp |-> InitNow] >>

\* the bucket at startup: the newest m of them are still there
InitStores == { {PreObjects[n] : n \in (Len(PreObjects) - m + 1) .. Len(PreObjects)} :
                  m \in 0 .. Len(PreObjects) }

\* the dump file at startup: absent, or written during the last second
InitDumps ==
    { [exists |-> FALSE, mtime |-> 0],
      [exists |-> TRUE, mtime |-> (InitNow - 1) * TicksPerSecond + 1] }

\* Runs with --once are started from every configuration; runs of the loop,
\* whose cycles multiply the state space, from the configurations of LoopConfigs
\* and a full bucket.
LoopConfigs ==
    [ impl : {"backup", "main"},
      interval : LoopIntervals,
      initial_delay : {NoDelay},
      backup_master : {TRUE},
      backup_replica : BOOLEAN,
      keep_last : {1},
      keep_duration : {NoDuration},
      storage : {"S3", "Gcs"} ]

\* Runs with a non-zero initial delay are started in both modes from the
\* configurations of DelayConfigs and an empty bucket.
DelayConfigs ==
    [ impl : {"backup", "main"},
      interval : {OneSecond},
      initial_delay : {[parses |-> TRUE, ticks |-> d] : d \in 1 .. MaxDelay},
      backup_master : {TRUE},
      backup_replica : BOOLEAN,
      keep_last : {1},
      keep_duration : {NoDuration},
      storage : {"S3"} ]

\* Objects that two other nodes uploaded under the same bucket and prefix: the
\* node "ab", whose name starts with this node's, and the node "b".
OtherNodes == {<<"a", "b">>, <<"b">>}
OtherObjects ==
    { [key |-> trim_end_matches(prefix) \o <<"/">> \o name \o <<"_">>
                   \o format_rfc3339_seconds(0) \o <<".rdb">>,
       timestamp |-> 0] : name \in OtherNodes }

\* Runs on a bucket shared with those nodes are started with --once.
SharedConfigs ==
    [ impl : {"backup", "main"},
      interval : {OneSecond},
      initial_delay : {NoDelay},
      backup_master : {TRUE},
      backup_replica : {TRUE},
      keep_last : 0 .. 1,
      keep_duration : {NoDuration},
      storage : {"S3"} ]

\* Runs against an S3-compatible store that omits the continuation token are
\* started with --once from these configurations and a full bucket.
TokenlessConfigs ==
    [ impl : {"backup", "main"},
      interval : {OneSecond},
      initial_delay : {NoDelay},
      backup_master : {TRUE},
      backup_replica : {TRUE},
      keep_last : {1},
      keep_duration : {NoDuration},
      storage : {"S3"} ]

\* The metrics server is enabled in runs of backup.rs's manager from these
\* configurations and a full bucket.
ScrapedConfigs ==
    [ impl : {"backup"},
      interval : {OneSecond},
      initial_delay : {NoDelay},
      backup_master : {TRUE},
      backup_replica : {TRUE},
      keep_last : {1},
      keep_duration : {NoDuration},
      storage : {"S3"} ]

\* no request has been handled yet
NoResponse == [status |-> 0, text |-> "", samples |-> <<>>]

Event(op, ok, k) == [op |-> op, ok |-> ok, key |-> k]

Init ==
    /\ \/ once = TRUE /\ config \in Configs /\ store \in InitStores
       \/ once = FALSE /\ config \in LoopConfigs /\ store = Range(PreObjects)
       \/ once \in BOOLEAN /\ config \in DelayConfigs /\ store = {}
       \/ once = TRUE /\ config \in SharedConfigs /\ store = Range(PreObjects) \cup OtherObjects
    /\ omits_token \in IF once /\ config \in TokenlessConfigs /\ store = Range(PreObjects)
                       THEN BOOLEAN ELSE {FALSE}
    /\ metrics_enabled \in IF config \in ScrapedConfigs /\ store = Range(PreObjects)
                           THEN BOOLEAN ELSE {FALSE}
    /\ write_guard = FALSE
    /\ requests = 0
    /\ http_response = NoResponse
    /\ subsec = 0
    /\ runs = <<>>
    /\ redis_conn = needs_redis_conn(config)
    /\ now = InitNow
    /\ dump \in InitDumps
    /\ info = <<>>
    /\ pc = "run"
    /\ next_interval = 0
    /\ slept = 0
    /\ metrics = NoMetrics
    /\ modified = 0
    /\ key = <<>>
    /\ continuation_token = <<>>
    /\ backups = <<>>
    /\ keep_indices = {}
    /\ cutoff = 0
    /\ i = 0
    /\ deleted_count = 0
    /\ should = "none"
    /\ result = "none"
    /\ cycles = 0
    /\ trace = <<>>
    /\ hist = <<>>

\* ------------------------------------------------------------- environment
\* A second passes.  The task reads the clock when it computes the wait to the
\* next slot, when it builds the key, when the upload is stamped and when the
\* cutoff is computed, and the database stamps the dump file: a tick anywhere
\* else commutes with the task's steps.
Tick ==
    /\ \/ pc \in {"exists", "metadata", "read", "upload", "list"}
       \/ pc = "loop" /\ config.impl = "backup" /\ ~once /\ cycles < MaxCycles
    /\ now < MaxNow
    /\ now' = now + 1
    /\ UNCHANGED <<write_guard, next_interval, slept, inputs, http, timing, dump, store, info, pc, metrics, locals, should, result, cycles,
                   trace, hist>>

\* The database rewrites its dump file.  The task looks at the file in
\* DumpExists and Metadata only: a rewrite anywhere else commutes with its steps.
RedisDump ==
    /\ pc \in {"exists", "metadata"}
    /\ \E sub \in 0 .. (TicksPerSecond - 1) :
          /\ now * TicksPerSecond + sub > dump.mtime \/ ~dump.exists
          /\ dump' = [exists |-> TRUE, mtime |-> now * TicksPerSecond + sub]
    /\ UNCHANGED <<write_guard, next_interval, slept, inputs, http, timing, now, store, info, pc, metrics, locals, should, result, cycles,
                   trace, hist>>

\* ----------------------------------------------------------- the metrics lock
\* Arc<RwLock<Metrics>>: write().await completes only while no guard is out,
\* the caller's own included
write_ready(held) == ~held

\* read().await completes only while no write guard is out
read_ready(held) == ~held

\* main.rs's manager has no metrics and takes no guard
Held(guard) == config.impl = "backup" /\ guard

\* mutant: the guard that recorded the duration is still held when cleanup is called
guard_into_cleanup_kept(upload_ok) == upload_ok

\* backup.rs 215-224: the guard that recorded the duration is dropped before
\* cleanup_old_backups is called
guard_into_cleanup(upload_ok) == FALSE

\* backup.rs 289-300: the guard is taken before the delete call is awaited and
\* dropped after it has returned
guard_over_delete(pending) == pending

\* ---------------------------------------------------------------- the cycle
Inc(m, counter) == [m EXCEPT ![counter] = @ + 1]

\* main.rs's manager has no metrics: only backup.rs's updates them
Recorded(m) == IF config.impl = "backup" THEN m ELSE metrics

Return(res) == pc' = "returned" /\ result' = res

\* mutant: the Err arm observes the duration only
FailedMetrics_uncounted(m) == Inc(m, "backup_duration_seconds")

\* backup.rs 213-232, the Err arm: the duration is observed and the failure counted
FailedMetrics(m) == Inc(Inc(m, "backup_duration_seconds"), "backups_failed")

\* mutant: the gauge is set to the file's last-modified second
UploadedMetrics_mtime(m, t) ==
    Inc(Inc([Inc(Inc(m, "storage_uploads_total"), "backup_size_bytes")
                EXCEPT !.last_backup_timestamp = modified \div TicksPerSecond],
            "backup_duration_seconds"),
        "backups_successful")

\* mutant: the success is counted after cleanup, not before it
UploadedMetrics_uncounted(m, t) ==
    Inc([Inc(Inc(m, "storage_uploads_total"), "backup_size_bytes")
            EXCEPT !.last_backup_timestamp = t],
        "backup_duration_seconds")

\* backup.rs 191-202 and 213-220: a successful upload, then the cycle's success
UploadedMetrics(m, t) ==
    Inc(Inc([Inc(Inc(m, "storage_uploads_total"), "backup_size_bytes")
                EXCEPT !.last_backup_timestamp = t],
            "backup_duration_seconds"),
        "backups_successful")

\* backup.rs 204-208 and 228-231: a failed upload
UploadFailedMetrics(m) == FailedMetrics(Inc(m, "storage_uploads_total"))

\* mutant: cleanup is not gated on the upload's result
cleanup_runs_always(upload_ok) == TRUE

\* backup.rs 218-232 / main.rs 227-231: cleanup runs only after an Ok upload
cleanup_runs(upload_ok) == upload_ok

\* mutant: the attempt is not counted at the start of the cycle
AttemptMetrics_uncounted(m) == m

\* backup.rs 139-142: the attempt is counted first
AttemptMetrics(m) == Inc(m, "backups_total")

\* perform_backup up to the first suspension: the attempt counter, then
\* should_backup's short circuit or its query
PerformBackup ==
    /\ pc = "perform_backup"
    /\ write_ready(write_guard)
    /\ write_guard' = FALSE
    /\ cycles' = cycles + 1
    /\ trace' = <<>>
    /\ \E reply \in InfoReplies : info' = reply
    /\ metrics' = Recorded(AttemptMetrics(metrics))
    /\ modified' = 0
    /\ key' = <<>>
    /\ continuation_token' = <<>>
    /\ backups' = <<>>
    /\ keep_indices' = {}
    /\ cutoff' = 0
    /\ i' = 0
    /\ deleted_count' = 0
    /\ result' = "none"
    /\ pc' = should_backup_start(config, redis_conn)
    /\ should' = IF should_backup_start(config, redis_conn) = "info" THEN "none" ELSE "true"
    /\ UNCHANGED <<next_interval, slept, inputs, http, timing, now, dump, store, hist>>

\* get_redis_role's INFO query returns, and should_backup decides
InfoQuery ==
    /\ pc = "info"
    /\ \E ok \in BOOLEAN :
          /\ trace' = Append(trace, Event("info", ok, <<>>))
          /\ should' = should_backup_after(config, role_result(ok, info))
          /\ CASE should_backup_after(config, role_result(ok, info)) = "error" ->
                     Return("err")
               [] should_backup_after(config, role_result(ok, info)) = "true" ->
                     pc' = "exists" /\ UNCHANGED result
               [] OTHER -> Return("ok")
    /\ UNCHANGED <<write_guard, next_interval, slept, inputs, http, timing, now, dump, store, info, metrics, locals, cycles, hist>>

\* mutant: a missing dump file is not looked for
after_exists_unchecked(exists) == "metadata"

\* if !dump_path.exists() { return Ok(()) }
after_exists(exists) == IF exists THEN "metadata" ELSE "returned"

\* dump_path.exists()
DumpExists ==
    /\ pc = "exists"
    /\ IF after_exists(dump.exists) = "returned" THEN Return("ok")
       ELSE pc' = after_exists(dump.exists) /\ UNCHANGED result
    /\ info' = <<>>
    /\ UNCHANGED <<write_guard, next_interval, slept, inputs, http, timing, now, dump, store, metrics, locals, should, cycles, trace, hist>>

\* fs::metadata(&dump_path) and metadata.modified()
Metadata ==
    /\ pc = "metadata"
    /\ \E ok \in BOOLEAN :
          /\ trace' = Append(trace, Event("metadata", ok, <<>>))
          /\ IF ok
             THEN /\ modified' = dump.mtime
                  /\ pc' = "read"
                  /\ UNCHANGED <<metrics, result>>
             ELSE /\ write_ready(write_guard)
                  /\ metrics' = Recorded(FailedMetrics(metrics))
                  /\ Return("err")
                  /\ UNCHANGED modified
          /\ write_guard' = FALSE
    /\ UNCHANGED <<next_interval, slept, inputs, http, timing, now, dump, store, info, key, continuation_token, backups,
                   keep_indices, cutoff, i, deleted_count, should, cycles, hist>>

\* fs::read(&dump_path), then the key is built
ReadDump ==
    /\ pc = "read"
    /\ \E ok \in BOOLEAN :
          /\ trace' = Append(trace, Event("read", ok, <<>>))
          /\ IF ok
             THEN /\ key' = make_key(config.impl, now, modified)
                  /\ hist' = Append(hist, [modified |-> modified,
                                           key |-> make_key(config.impl, now, modified)])
                  /\ pc' = "upload"
                  /\ UNCHANGED <<metrics, result>>
             ELSE /\ write_ready(write_guard)
                  /\ metrics' = Recorded(FailedMetrics(metrics))
                  /\ Return("err")
                  /\ UNCHANGED <<key, hist>>
          /\ write_guard' = FALSE
    /\ UNCHANGED <<next_interval, slept, inputs, http, timing, now, dump, store, info, modified, continuation_token, backups,
                   keep_indices, cutoff, i, deleted_count, should, cycles>>

\* self.storage.upload(&key, data_bytes) returns
Upload ==
    /\ pc = "upload"
    /\ write_ready(write_guard)
    /\ \E ok \in BOOLEAN :
          /\ write_guard' = Held(guard_into_cleanup(ok))
          /\ trace' = Append(trace, Event("upload", ok, key))
          /\ store' = IF ok THEN put_object(store, key, now) ELSE store
          /\ metrics' = Recorded(IF ok THEN UploadedMetrics(metrics, now)
                                  ELSE UploadFailedMetrics(metrics))
          /\ IF cleanup_runs(ok) THEN pc' = "cleanup" /\ UNCHANGED result
             ELSE Return("err")
    /\ UNCHANGED <<next_interval, slept, inputs, http, timing, now, dump, info, locals, should, cycles, hist>>

\* -------------------------------------------------------------- the cleanup
\* cleanup_old_backups up to the first list request
Cleanup ==
    /\ pc = "cleanup"
    /\ write_ready(write_guard)
    /\ write_guard' = FALSE
    /\ metrics' = Recorded(Inc(metrics, "cleanup_operations_total"))
    /\ continuation_token' = <<>>
    /\ backups' = <<>>
    /\ pc' = "list"
    /\ UNCHANGED <<next_interval, slept, inputs, http, timing, now, dump, store, info, modified, key, keep_indices, cutoff, i,
                   deleted_count, should, result, cycles, trace, hist>>

\* one list request returns; after the last one the listing is sorted and the
\* keep set computed
List ==
    /\ pc = "list"
    /\ omits_token => Len(backups) <= MaxListed
    /\ \E ok \in BOOLEAN :
          /\ trace' = Append(trace, Event("list", ok, <<>>))
          /\ IF ~ok
             THEN /\ Return("err")
                  /\ UNCHANGED <<continuation_token, backups, keep_indices, cutoff, i,
                                 write_guard>>
             ELSE LET response == Served(ListResponse(store, node_prefix, continuation_token),
                                         omits_token)
                      listed == backups \o response.contents
                  IN  IF list_continues(config.storage, response)
                      THEN /\ continuation_token' = response.next_token
                           /\ backups' = listed
                           /\ UNCHANGED <<pc, result, keep_indices, cutoff, i, write_guard>>
                      ELSE /\ backups' = sort_by(listed)
                           /\ UNCHANGED continuation_token
                           /\ IF config.keep_duration.some /\ ~config.keep_duration.parses
                              THEN /\ keep_indices' =
                                          keep_last_indices(config.keep_last, Len(listed))
                                   /\ Return("err")
                                   /\ UNCHANGED <<cutoff, i, write_guard>>
                              ELSE /\ keep_indices' = keep_set(sort_by(listed),
                                          config.keep_last, config.keep_duration, now)
                                   /\ cutoff' = IF config.keep_duration.some
                                                 THEN cutoff_of(now, config.keep_duration.secs)
                                                 ELSE 0
                                   /\ i' = 1
                                   /\ pc' = "delete"
                                   /\ write_guard' = Held(guard_over_delete(
                                          next_victim(sort_by(listed),
                                              keep_set(sort_by(listed), config.keep_last,
                                                       config.keep_duration, now), 1) # 0))
                                   /\ UNCHANGED result
    /\ UNCHANGED <<next_interval, slept, inputs, http, timing, now, dump, store, info, metrics, modified, key, deleted_count,
                   should, cycles, hist>>

\* mutant: a failed delete ends the loop with the error, as `?` would
delete_continues_unless_failed(ok) == ok

\* backup.rs 290-299 / main.rs 279-281: both arms of the match on the delete's
\* result fall through to the next iteration
delete_continues(ok) == TRUE

\* mutant: a failed delete is counted as deleted too
count_deleted_any(ok, n) == n + 1

\* backup.rs 291-294: deleted_count += 1 in the Ok arm only
count_deleted(ok, n) == IF ok THEN n + 1 ELSE n

\* one iteration of the delete loop that finds a record outside the keep set
Delete ==
    /\ pc = "delete"
    /\ next_victim(backups, keep_indices, i) # 0
    /\ LET n == next_victim(backups, keep_indices, i)
       IN  \E ok \in BOOLEAN :
              /\ trace' = Append(trace, Event("delete", ok, backups[n].key))
              /\ store' = IF ok THEN delete_object(store, backups[n].key) ELSE store
              /\ deleted_count' = count_deleted(ok, deleted_count)
              /\ metrics' = Recorded(Inc(metrics, "storage_deletes_total"))
              /\ IF delete_continues(ok)
                 THEN /\ i' = n + 1
                      /\ write_guard' = Held(guard_over_delete(
                             next_victim(backups, keep_indices, n + 1) # 0))
                      /\ UNCHANGED <<pc, result>>
                 ELSE Return("err") /\ write_guard' = FALSE /\ UNCHANGED i
    /\ UNCHANGED <<next_interval, slept, inputs, http, timing, now, dump, info, modified, key, continuation_token, backups,
                   keep_indices, cutoff, should, cycles, hist>>

\* the loop is exhausted: the deleted counter, then Ok(())
CleanupReturn ==
    /\ pc = "delete"
    /\ next_victim(backups, keep_indices, i) = 0
    /\ deleted_count > 0 => write_ready(write_guard)
    /\ write_guard' = FALSE
    /\ metrics' = Recorded([metrics EXCEPT !.backups_deleted_total = @ + deleted_count])
    /\ Return("ok")
    /\ UNCHANGED <<next_interval, slept, inputs, http, timing, now, dump, store, info, locals, should, cycles, trace, hist>>

\* ------------------------------------------------------------ the scheduler
\* mutant: the initial delay's parse error is ignored
durations_parse_interval_only(cfg) == cfg.interval.parses

\* run: both duration strings must parse before the loop is entered
durations_parse(cfg) == cfg.interval.parses /\ cfg.initial_delay.parses

\* Duration::as_secs: whole seconds, the fraction dropped
interval_as_secs(d) == d.ticks \div TicksPerSecond

\* i64 % i64 panics on a zero divisor
rem_panics(divisor) == divisor = 0

\* interval.as_secs() as i64 - Utc::now().timestamp() % interval.as_secs() as i64
seconds_to_next_slot(secs, t) == secs - (t % secs)

\* backup.rs sleeps to the next slot before the cycle unless once; main.rs
\* starts the cycle at once
aligns(cfg, o) == cfg.impl = "backup" /\ ~o

\* mutant: an Err from the cycle ends the loop, as `?` would
loop_breaks_on_error(o, res) == o \/ res = "err"

\* mutant: the loop has no break
loop_breaks_never(o, res) == FALSE

\* after the cycle's result is logged: if once { break }
loop_breaks(o, res) == o

\* backup.rs sleeps unless the delay is zero, main.rs if it has a whole second
sleeps_initially(cfg) ==
    IF cfg.impl = "backup" THEN cfg.initial_delay.ticks # 0
    ELSE interval_as_secs(cfg.initial_delay) > 0

\* run: the durations are parsed, then the initial delay is slept or the loop
\* entered
Run ==
    /\ pc = "run"
    /\ pc' = IF ~durations_parse(config) THEN "failed"
             ELSE IF sleeps_initially(config) THEN "initial_delay"
             ELSE "loop"
    /\ UNCHANGED <<write_guard, next_interval, slept, inputs, http, timing, now, dump, store, info, metrics, locals, should, result, cycles,
                   trace, hist>>

\* time::sleep(initial_delay) returns
InitialDelay ==
    /\ pc = "initial_delay"
    /\ slept' = config.initial_delay.ticks
    /\ pc' = "loop"
    /\ UNCHANGED <<write_guard, next_interval, inputs, http, timing, now, dump, store, info, metrics, locals, should, result,
                   cycles, trace, hist>>

\* top of the loop: the wait to the next slot is computed from the clock, or
\* the cycle is started at once
Loop ==
    /\ pc = "loop"
    /\ cycles < MaxCycles
    /\ IF ~aligns(config, once)
       THEN pc' = "perform_backup" /\ UNCHANGED next_interval
       ELSE IF rem_panics(interval_as_secs(config.interval))
       THEN pc' = "panicked" /\ UNCHANGED next_interval
       ELSE /\ pc' = "sleep"
            /\ next_interval' = seconds_to_next_slot(interval_as_secs(config.interval), now)
    /\ UNCHANGED <<write_guard, slept, inputs, http, timing, now, dump, store, info, metrics, locals, should, result, cycles,
                   trace, hist>>

\* time::sleep returns
Wake ==
    /\ pc = "sleep"
    /\ pc' = IF config.impl = "backup" THEN "perform_backup" ELSE "loop"
    /\ next_interval' = 0
    /\ UNCHANGED <<write_guard, slept, inputs, http, timing, now, dump, store, info, metrics, locals, should, result, cycles,
                   trace, hist>>

\* mutant: the cycle's error is returned by run, as `?` would
run_returns_propagating(res) == IF res = "err" THEN "failed" ELSE "exit"

\* after the break: Ok(()), whatever the cycle returned
run_returns(res) == "exit"

\* mutant: the cycle is not awaited: the loop goes on while it is in progress
Returned_detached ==
    /\ pc \in {"info", "exists", "metadata", "read", "upload", "cleanup", "list", "delete",
               "returned"}
    /\ pc' = IF loop_breaks(once, result) THEN "exit"
             ELSE IF config.impl = "backup" THEN "loop" ELSE "sleep"
    /\ info' = <<>>
    /\ UNCHANGED <<write_guard, next_interval, slept, inputs, http, timing, now, dump, store, metrics, locals, should, result,
                   cycles, trace, hist>>

\* perform_backup has returned: the result is logged; once breaks the loop,
\* and main.rs sleeps one interval before the next iteration
Returned ==
    /\ pc = "returned"
    /\ pc' = IF loop_breaks(once, result) THEN run_returns(result)
             ELSE IF config.impl = "backup" THEN "loop" ELSE "sleep"
    /\ info' = <<>>
    /\ UNCHANGED <<write_guard, next_interval, slept, inputs, http, timing, now, dump, store, metrics, locals, should, result, cycles, trace,
                   hist>>

\* ------------------------------------------------------- the metrics server
Requests == [method : {"GET", "POST"}, path : {"/metrics", "/health", "/"}]

\* Metrics::gather: the registry's families in the order of registration
gather(m) ==
    << m.backups_total, m.backups_successful, m.backups_failed, m.backup_size_bytes,
       m.backup_duration_seconds, m.last_backup_timestamp, m.storage_uploads_total,
       m.storage_deletes_total, m.cleanup_operations_total, m.backups_deleted_total >>

\* the arm of handle_request that takes the read guard
reads_metrics(req) == req.method = "GET" /\ req.path = "/metrics"

\* mutant: the handler counts the scrape in the metrics
handle_request_counting(req, m, encoded) ==
    IF reads_metrics(req)
    THEN IF encoded
         THEN [status |-> 200, text |-> "", samples |-> gather(m),
               metrics |-> Inc(m, "backups_total")]
         ELSE [status |-> 500, text |-> "Failed to gather metrics", samples |-> <<>>,
               metrics |-> Inc(m, "backups_total")]
    ELSE IF req.method = "GET" /\ req.path = "/health"
    THEN [status |-> 200, text |-> "OK", samples |-> <<>>, metrics |-> m]
    ELSE [status |-> 404, text |-> "Not Found", samples |-> <<>>, metrics |-> m]

\* handle_request: the response, and the metrics as the handler leaves them
handle_request(req, m, encoded) ==
    IF reads_metrics(req)
    THEN IF encoded
         THEN [status |-> 200, text |-> "", samples |-> gather(m), metrics |-> m]
         ELSE [status |-> 500, text |-> "Failed to gather metrics", samples |-> <<>>,
               metrics |-> m]
    ELSE IF req.method = "GET" /\ req.path = "/health"
    THEN [status |-> 200, text |-> "OK", samples |-> <<>>, metrics |-> m]
    ELSE [status |-> 404, text |-> "Not Found", samples |-> <<>>, metrics |-> m]

\* A connection's task handles one request while a cycle is in progress.  Between
\* cycles the scheduler task holds no guard and writes nothing: a request
\* handled there commutes with its steps.
HandleRequest ==
    /\ metrics_enabled
    /\ pc \in {"info", "exists", "metadata", "read", "upload", "cleanup", "list", "delete"}
    /\ requests < MaxRequests
    /\ \E req \in Requests, encoded \in BOOLEAN :
          /\ reads_metrics(req) => read_ready(write_guard)
          /\ LET served == handle_request(req, metrics, encoded)
             IN  /\ http_response' = [status |-> served.status, text |-> served.text,
                                       samples |-> served.samples]
                 /\ metrics' = served.metrics
    /\ requests' = requests + 1
    /\ UNCHANGED <<write_guard, next_interval, slept, inputs, timing, now, dump, store, info, pc,
                   locals, should, result, cycles, trace, hist>>

Next ==
    \/ Tick
    \/ RedisDump
    \/ Run
    \/ InitialDelay
    \/ Loop
    \/ Wake
    \/ PerformBackup
    \/ InfoQuery
    \/ DumpExists
    \/ Metadata
    \/ ReadDump
    \/ Upload
    \/ Cleanup
    \/ List
    \/ Delete
    \/ CleanupReturn
    \/ Returned
    \/ HandleRequest

Spec == Init /\ [][Next]_vars

\* The steps of the scheduler task itself.  The runtime keeps polling a
\* runnable task, every awaited call returns (with Ok or with an error) and
\* every timer fires: the task is never left waiting forever.
TaskStep ==
    \/ Run
    \/ InitialDelay
    \/ Loop
    \/ Wake
    \/ PerformBackup
    \/ InfoQuery
    \/ DumpExists
    \/ Metadata
    \/ ReadDump
    \/ Upload
    \/ Cleanup
    \/ List
    \/ Delete
    \/ CleanupReturn
    \/ Returned

\* runs of the loop (without --once), under that scheduling
LoopInit == Init /\ ~once
LiveSpec == LoopInit /\ [][Next]_vars /\ WF_vars(TaskStep)

\* ---------------------------------------------------------- the timed loop
\* The loop of run against the wall clock: a sleep lasts as long as asked, a
\* cycle as long as the database, the file system and the storage take, and the
\* steps of the loop itself take no time.
clock == now * TicksPerSecond + subsec

SchedConfigs ==
    [ impl : {"backup", "main"},
      interval : {[parses |-> TRUE, ticks |-> d] : d \in TicksPerSecond .. MaxInterval},
      initial_delay : {NoDelay},
      backup_master : {TRUE},
      backup_replica : {TRUE},
      keep_last : {1},
      keep_duration : {NoDuration},
      storage : {"S3"} ]

SchedInit ==
    /\ config \in SchedConfigs
    /\ once = FALSE
    /\ omits_token = FALSE
    /\ metrics_enabled = FALSE
    /\ write_guard = FALSE
    /\ requests = 0
    /\ http_response = NoResponse
    /\ redis_conn = needs_redis_conn(config)
    /\ now \in 0 .. MaxNow
    /\ subsec \in 0 .. (TicksPerSecond - 1)
    /\ runs = <<>>
    /\ dump = [exists |-> FALSE, mtime |-> 0]
    /\ store = {}
    /\ info = <<>>
    /\ pc = "run"
    /\ next_interval = 0
    /\ slept = 0
    /\ metrics = NoMetrics
    /\ modified = 0
    /\ key = <<>>
    /\ continuation_token = <<>>
    /\ backups = <<>>
    /\ keep_indices = {}
    /\ cutoff = 0
    /\ i = 0
    /\ deleted_count = 0
    /\ should = "none"
    /\ result = "none"
    /\ cycles = 0
    /\ trace = <<>>
    /\ hist = <<>>

\* what the loop sleeps: backup.rs the whole seconds to the next slot before the
\* cycle, main.rs the interval after it
sleep_ticks(cfg, wait) ==
    IF cfg.impl = "backup" THEN wait * TicksPerSecond ELSE cfg.interval.ticks

\* time::sleep returns when the duration has passed
Sleep ==
    /\ pc = "sleep"
    /\ now' = (clock + sleep_ticks(config, next_interval)) \div TicksPerSecond
    /\ subsec' = (clock + sleep_ticks(config, next_interval)) % TicksPerSecond
    /\ pc' = IF config.impl = "backup" THEN "perform_backup" ELSE "loop"
    /\ next_interval' = 0
    /\ UNCHANGED <<write_guard, slept, inputs, http, runs, dump, store, info, metrics, locals,
                   should, result, cycles, trace, hist>>

\* self.perform_backup().await: the cycle starts, takes its time and returns
TimedCycle ==
    /\ pc = "perform_backup"
    /\ \E d \in 0 .. MaxCycleTicks :
          /\ runs' = Append(runs, [start |-> clock, finish |-> clock + d])
          /\ now' = (clock + d) \div TicksPerSecond
          /\ subsec' = (clock + d) % TicksPerSecond
    /\ \E res \in {"ok", "err"} : Return(res)
    /\ cycles' = cycles + 1
    /\ UNCHANGED <<write_guard, next_interval, slept, inputs, http, dump, store, info, metrics,
                   locals, should, trace, hist>>

SchedNext ==
    \/ Run
    \/ Loop
    \/ Sleep
    \/ TimedCycle
    \/ Returned

SchedSpec == SchedInit /\ [][SchedNext]_vars

\* =================================================================== claims
InCycle == {"info", "exists", "metadata", "read", "upload", "cleanup", "list", "delete"}

\* the current cycle has returned and the next one has not started
Finished == cycles > 0 /\ pc \notin InCycle

Calls(op) == {n \in DOMAIN trace : trace[n].op = op}
OkCalls(op) == {n \in Calls(op) : trace[n].ok}
FailedCalls(op) == {n \in Calls(op) : ~trace[n].ok}

LastCallIs(e) == trace # <<>> /\ trace[Len(trace)] = e

\* the listing ended with a successful response and the configured duration
\* parses, so the keep set was computed and the delete loop entered
ListingDone ==
    /\ pc \notin {"list", "cleanup"}
    /\ Calls("list") # {}
    /\ \A n \in Calls("list") : trace[n].ok
Partitioned == ListingDone /\ (config.keep_duration.some => config.keep_duration.parses)

\* the indices of the sorted listing that fall outside the keep set
Candidates == {n \in DOMAIN backups : n \notin keep_indices}

DeleteCallsFor(k) == {n \in Calls("delete") : trace[n].key = k}

\* ---------------------------------------------------------------------- C1
\* C1: in every cycle a list or delete call is preceded by a successful upload
\* of the same cycle; the step in which an upload fails returns the error,
\* counts one failure (backup.rs) and the cycle makes no list or delete call.
C1_UploadFailedStep ==
    (pc = "upload" /\ trace' = Append(trace, Event("upload", FALSE, key)))
        => /\ pc' = "returned"
           /\ result' = "err"
           /\ config.impl = "backup" => metrics'.backups_failed = metrics.backups_failed + 1
C1_CleanupAfterUpload ==
    /\ \A n \in Calls("list") \cup Calls("delete") : \E m \in OkCalls("upload") : m < n
    /\ FailedCalls("upload") # {} =>
          /\ Finished
          /\ result = "err"
          /\ Calls("list") \cup Calls("delete") = {}
C1_CleanupGatedOnUpload == [](C1_CleanupAfterUpload) /\ [][C1_UploadFailedStep]_vars
\* a first cycle cleaned up after its upload, the second one's upload failed
C1_Witness ==
    /\ config.impl = "backup"
    /\ pc = "returned"
    /\ cycles = 2
    /\ LastCallIs(Event("upload", FALSE, key))
    /\ metrics.backups_failed = 1
    /\ metrics.storage_deletes_total >= 1

\* ---------------------------------------------------------------------- C2
\* C2: while the delete loop runs, exactly one delete has been called for every
\* candidate before the loop position and none for the others; once cleanup has
\* returned, exactly one for every candidate, whichever of them failed, and
\* the cycle's result is Ok.
C2_EveryCandidateOnce ==
    /\ pc = "delete" =>
          \A n \in DOMAIN backups :
             Cardinality(DeleteCallsFor(backups[n].key)) =
                IF n \in Candidates /\ n < i THEN 1 ELSE 0
    /\ (Finished /\ Partitioned) =>
          /\ result = "ok"
          /\ \A n \in DOMAIN backups :
                Cardinality(DeleteCallsFor(backups[n].key)) =
                   IF n \in Candidates THEN 1 ELSE 0
          /\ Cardinality(Calls("delete")) = Cardinality(Candidates)
\* cleanup returned after two deletes, the first of which failed
C2_Witness ==
    /\ Finished
    /\ Partitioned
    /\ Cardinality(Candidates) >= 2
    /\ \E n \in FailedCalls("delete") : \E m \in OkCalls("delete") : n < m

\* ---------------------------------------------------------------------- C3
\* C3: once the listing is sorted and the keep set computed, the records for
\* which no delete is called number at least min(keep_last, number of records).
SparedRecords == {n \in DOMAIN backups : DeleteCallsFor(backups[n].key) = {}}
C3_KeepsAtLeastKeepLast ==
    ListingDone => Cardinality(SparedRecords) >= Min(config.keep_last, Len(backups))
\* a finished cleanup that listed more records than keep_last and spared exactly keep_last
C3_Witness ==
    /\ Finished
    /\ Partitioned
    /\ config.keep_last >= 1
    /\ Len(backups) > config.keep_last
    /\ Cardinality(SparedRecords) = config.keep_last

\* ---------------------------------------------------------------------- C4
\* C4: the listing is sorted newest first, and once cleanup has returned a
\* delete has been called for every record that lies after the first keep_last
\* positions and is older than the cutoff (or no keep_duration is configured).
SortedNewestFirst ==
    \A m, n \in DOMAIN backups : m < n => backups[m].timestamp >= backups[n].timestamp
OldAndOutside(n) ==
    /\ n > config.keep_last
    /\ config.keep_duration.some => backups[n].timestamp < cutoff
C4_OldOutsideWindowDeleted ==
    /\ ListingDone => SortedNewestFirst
    /\ (pc = "delete" /\ config.keep_duration.some) =>
          cutoff = now - config.keep_duration.secs
    /\ (Finished /\ Partitioned) =>
          \A n \in DOMAIN backups : OldAndOutside(n) => DeleteCallsFor(backups[n].key) # {}
\* with keep_last and keep_duration both set, an old record outside the window
\* was deleted while a record newer than the cutoff outside the window was kept
C4_Witness ==
    /\ Finished
    /\ Partitioned
    /\ config.keep_duration.some
    /\ config.keep_last >= 1
    /\ \E n \in DOMAIN backups : OldAndOutside(n)
    /\ \E n \in DOMAIN backups : n > config.keep_last /\ n \in SparedRecords

\* ---------------------------------------------------------------------- C5
\* C5: with keep_last = 0 and no keep_duration every listed record is a
\* candidate, and after a cycle that uploaded, returned Ok and had no failed
\* delete, no object of this node is left in the bucket.
C5_NothingLeft ==
    (config.keep_last = 0 /\ ~config.keep_duration.some) =>
        /\ Partitioned => Candidates = DOMAIN backups
        /\ (Finished /\ result = "ok" /\ OkCalls("upload") # {} /\ FailedCalls("delete") = {})
              => Under(store, node_prefix) = {}

\* ---------------------------------------------------------------------- C6
\* C6: two cycles that read the same last-modified time build the same key, and
\* the bucket holds at most one object built from that last-modified time.
C6_SameDumpSameKey ==
    \A a, b \in DOMAIN hist :
       hist[a].modified = hist[b].modified =>
          /\ hist[a].key = hist[b].key
          /\ Cardinality({o \in store : o.key \in {hist[a].key, hist[b].key}}) <= 1

\* ---------------------------------------------------------------------- C7
\* C7: when list has returned Ok, on either backend, its records are exactly
\* the objects stored under the prefix.
C7_ListReturnsEverything ==
    (ListingDone /\ LastCallIs(Event("list", TRUE, <<>>)))
        => Range(backups) = Under(store, node_prefix)

\* ---------------------------------------------------------------------- C8
\* C8: whatever the two flags, when the database is a master the decision is
\* backup_master, and when it is a replica the decision is backup_replica.
Flag(b) == IF b THEN "true" ELSE "false"
C8_DecisionTable ==
    (pc \in {"exists", "returned"} /\ should \in {"true", "false"}) =>
        /\ get_redis_role(info) = "Master" => should = Flag(config.backup_master)
        /\ get_redis_role(info) = "Replica" => should = Flag(config.backup_replica)

\* ---------------------------------------------------------------------- C9
\* C9: with both flags set, every cycle's decision is true and no INFO query
\* is sent.
C9_BothFlagsNoQuery ==
    (config.backup_master /\ config.backup_replica) =>
        /\ pc # "info"
        /\ Calls("info") = {}
        /\ cycles > 0 => should = "true"
\* a cycle decided to back up a master without asking
C9_Witness ==
    /\ config.backup_master /\ config.backup_replica
    /\ pc = "exists"
    /\ should = "true"
    /\ get_redis_role(info) = "Master"

\* --------------------------------------------------------------------- C10
\* C10: a cycle whose INFO query failed has returned the error, did not decide
\* to back up, and made no other call (no metadata, read, upload, list, delete).
C10_QueryErrorAbortsCycle ==
    FailedCalls("info") # {} =>
        /\ Finished
        /\ result = "err"
        /\ should = "error"
        /\ Len(trace) = 1
\* the query failed while the dump file was there to be read
C10_Witness ==
    /\ pc = "returned"
    /\ trace = <<Event("info", FALSE, <<>>)>>
    /\ dump.exists
    /\ result = "err"

\* --------------------------------------------------------------------- C11
\* C11: the step in which a cycle is aborted by a failed database query, or by
\* a failed read of the dump file's metadata or contents, adds exactly one to
\* the failure counter, and the scheduler leaves a returned cycle for the next
\* iteration of its loop.
C11_AbortStep ==
    (config.impl = "backup" /\ pc \in {"info", "metadata", "read"}
                            /\ pc' = "returned" /\ result' = "err")
        => metrics'.backups_failed = metrics.backups_failed + 1
C11_SchedulerGoesOn == (pc = "returned" /\ ~once) => pc' \in {"loop", "sleep"}
C11_AbortedCyclesCounted == [][C11_AbortStep /\ C11_SchedulerGoesOn]_vars

\* --------------------------------------------------------------------- C12
\* C12: the step in which a cycle finds no dump file returns Ok, makes no call,
\* and leaves the bucket and the failure counter as they were; no upload, list
\* or delete has been made by the cycle before it either.
C12_MissingDumpStep ==
    (pc = "exists" /\ ~dump.exists /\ pc' # pc)
        => /\ pc' = "returned"
           /\ result' = "ok"
           /\ trace' = trace
           /\ store' = store
           /\ metrics'.backups_failed = metrics.backups_failed
C12_NoCallBefore ==
    pc = "exists" => Calls("upload") \cup Calls("list") \cup Calls("delete") = {}
C12_MissingDumpIsNoOp == [](C12_NoCallBefore) /\ [][C12_MissingDumpStep]_vars
\* a cycle that decided to back up returned Ok from a missing dump file while
\* the bucket held earlier backups
C12_Witness ==
    /\ pc = "returned"
    /\ ~dump.exists
    /\ should = "true"
    /\ result = "ok"
    /\ store # {}

\* --------------------------------------------------------------------- C13
\* C13: the step in which reading the dump file's metadata or contents fails
\* returns the error, adds one to the failure counter (backup.rs) and leaves
\* the upload counter, the cleanup counter and the bucket unchanged; the cycle
\* has made no upload, list or delete call.
C13_ReadFailedStep ==
    (pc \in {"metadata", "read"} /\ trace' = Append(trace, Event(pc, FALSE, <<>>)))
        => /\ pc' = "returned"
           /\ result' = "err"
           /\ store' = store
           /\ config.impl = "backup" =>
                 /\ metrics'.backups_failed = metrics.backups_failed + 1
                 /\ metrics'.storage_uploads_total = metrics.storage_uploads_total
                 /\ metrics'.cleanup_operations_total = metrics.cleanup_operations_total
C13_NoUploadAfterReadError ==
    FailedCalls("metadata") \cup FailedCalls("read") # {} =>
        /\ Finished
        /\ result = "err"
        /\ Calls("upload") \cup Calls("list") \cup Calls("delete") = {}
C13_ReadErrorFailsCycle == [](C13_NoUploadAfterReadError) /\ [][C13_ReadFailedStep]_vars
\* the metadata was read, then reading the contents failed
C13_Witness ==
    /\ config.impl = "backup"
    /\ pc = "returned"
    /\ LastCallIs(Event("read", FALSE, <<>>))
    /\ OkCalls("metadata") # {}
    /\ metrics.backups_failed = 1
    /\ metrics.storage_uploads_total = 0

\* --------------------------------------------------------------------- C14
\* C14: in every state, also while the role query is pending, the attempt
\* counter equals the number of cycles started.
C14_AttemptsEqualCycles == config.impl = "backup" => metrics.backups_total = cycles
\* a second cycle, skipped by the role decision, after a first one that succeeded
C14_Witness ==
    /\ config.impl = "backup"
    /\ pc = "returned"
    /\ cycles = 2
    /\ should = "false"
    /\ metrics.backups_successful = 1
    /\ metrics.backups_total = 2

\* --------------------------------------------------------------------- C15
\* C15: once a cycle has returned, whatever its outcome, the number of
\* cycle-duration observations equals the number of cycles started.
C15_OneDurationPerCycle ==
    (config.impl = "backup" /\ Finished) => metrics.backup_duration_seconds = cycles

\* --------------------------------------------------------------------- C16
\* C16: the step in which an upload returns adds one to the upload counter; if
\* it succeeded it adds one size observation and sets the gauge to the current
\* second, if it failed it leaves both unchanged and the cycle returns the
\* error; no other step changes the upload counter, the size observations or
\* the gauge.
C16_IsUploadStep == pc = "upload" /\ trace' # trace
C16_UploadStep ==
    config.impl = "backup" =>
        IF C16_IsUploadStep
        THEN /\ metrics'.storage_uploads_total = metrics.storage_uploads_total + 1
             /\ IF trace' = Append(trace, Event("upload", TRUE, key))
                THEN /\ metrics'.backup_size_bytes = metrics.backup_size_bytes + 1
                     /\ metrics'.last_backup_timestamp = now
                ELSE /\ metrics'.backup_size_bytes = metrics.backup_size_bytes
                     /\ metrics'.last_backup_timestamp = metrics.last_backup_timestamp
                     /\ pc' = "returned"
                     /\ result' = "err"
        ELSE /\ metrics'.storage_uploads_total = metrics.storage_uploads_total
             /\ metrics'.backup_size_bytes = metrics.backup_size_bytes
             /\ metrics'.last_backup_timestamp = metrics.last_backup_timestamp
C16_UploadMetrics == [][C16_UploadStep]_vars
\* after one upload that succeeded, a later one has failed: two attempts, one
\* size observation, and the gauge still holds the second of the first upload,
\* which is later than the second the file was written in
C16_Witness ==
    /\ config.impl = "backup"
    /\ pc = "returned"
    /\ LastCallIs(Event("upload", FALSE, key))
    /\ metrics.storage_uploads_total = 2
    /\ metrics.backup_size_bytes = 1
    /\ metrics.last_backup_timestamp > modified \div TicksPerSecond
    /\ metrics.last_backup_timestamp < now

\* --------------------------------------------------------------------- C17
\* C17: in a run of the loop, whenever a cycle has returned an error (and the
\* bound on cycles is not reached) one more cycle is eventually started; a
\* returned cycle is never followed by the end of the loop.
C17_NoBreak == [][(pc = "returned" /\ ~once) => pc' \in {"loop", "sleep"}]_vars
C18_LoopNeverEnds ==
    (~once /\ durations_parse(config)) => pc \notin {"exit", "failed", "panicked"}

\* --------------------------------------------------------------------- C19
\* C19: interval 3600 s at second 7230 gives a wait of 3570 s; and whenever the
\* loop sleeps to the next slot, the wait is interval - (now mod interval),
\* lies in 1 .. interval, and now + wait is a multiple of the interval
\* (interval and wait compared in ticks).
C19_AlignedWait ==
    /\ seconds_to_next_slot(interval_as_secs([parses |-> TRUE, ticks |-> 3600 * TicksPerSecond]),
                            7230) = 3570
    /\ (pc = "sleep" /\ aligns(config, once)) =>
          LET interval == config.interval.ticks
              wait == next_interval * TicksPerSecond
              t == now * TicksPerSecond
          IN  /\ interval >= TicksPerSecond
              /\ wait = interval - (t % interval)
              /\ next_interval >= 1
              /\ wait <= interval
              /\ (t + wait) % interval = 0

\* --------------------------------------------------------------------- C20
\* C20: with --once the task never sleeps to a slot and never computes a wait,
\* at most one cycle is started, the step after the cycle's return ends the
\* loop, and run has returned Ok only after exactly one cycle.
C20_OnceState ==
    once => /\ pc \notin {"sleep", "panicked"}
            /\ next_interval = 0
            /\ cycles <= 1
            /\ pc = "exit" => cycles = 1
C20_OnceStep == (once /\ pc = "returned") => pc' = "exit"
C20_OnceRunsOneCycle == [](C20_OnceState) /\ [][C20_OnceStep]_vars
\* run returned after its only cycle, which failed in the upload
C20_Witness ==
    /\ once
    /\ pc = "exit"
    /\ cycles = 1
    /\ result = "err"
    /\ FailedCalls("upload") # {}

\* --------------------------------------------------------------------- C21
\* C21: a cycle is started only from the scheduler's call, when no cycle is in
\* progress and the previous one (if any) has returned its result; a cycle
\* makes at most one upload call, no list or delete is made while the upload
\* is awaited, and a delete is awaited only after the upload has returned.
C21_CycleStartStep ==
    cycles' # cycles =>
        /\ cycles' = cycles + 1
        /\ pc = "perform_backup"
        /\ cycles > 0 => result \in {"ok", "err"}
C21_OneAtATime ==
    /\ pc \in InCycle => result = "none"
    /\ Finished => result \in {"ok", "err"}
    /\ Cardinality(Calls("upload")) <= 1
    /\ pc = "upload" => Calls("list") \cup Calls("delete") = {}
    /\ pc = "delete" => OkCalls("upload") # {}
C21_CyclesSequential == [](C21_OneAtATime) /\ [][C21_CycleStartStep]_vars
\* in the second cycle of a run a delete is awaited
C21_Witness ==
    /\ ~once
    /\ cycles = 2
    /\ pc = "delete"
    /\ next_victim(backups, keep_indices, i) # 0

\* --------------------------------------------------------------------- C22
\* C22: when the interval or the initial delay does not parse, run returns the
\* configuration error from its first step: it never sleeps, never enters the
\* loop and starts no cycle.
C22_StartupStep == (pc = "run" /\ ~(config.interval.parses /\ config.initial_delay.parses))
                       => pc' = "failed"
C22_NothingRuns ==
    ~(config.interval.parses /\ config.initial_delay.parses) =>
        /\ pc \in {"run", "failed"}
        /\ cycles = 0
        /\ slept = 0
        /\ next_interval = 0
        /\ trace = <<>>
C22_BadDurationFailsRun == [](C22_NothingRuns) /\ [][C22_StartupStep]_vars
\* run returned the error of an initial delay that does not parse
C22_Witness ==
    /\ pc = "failed"
    /\ config.interval.parses
    /\ ~config.initial_delay.parses

\* --------------------------------------------------------------------- C23
\* C23: with a keep_duration that does not parse, no cycle is ever started and
\* no upload is made.
C23_BadKeepDurationStopsStartup ==
    (config.keep_duration.some /\ ~config.keep_duration.parses) =>
        /\ cycles = 0
        /\ pc \notin InCycle
        /\ Calls("upload") = {}

\* --------------------------------------------------------------------- C24
\* C24: whatever the letter case of the role text in the reply, the detected
\* role is the one its lower-case form names: Master for master, Replica for
\* slave or replica, Unknown for anything else, for an empty reply and for a
\* reply without a role line.
LowerCase(c) ==
    CASE c = "MASTER" -> "master"
      [] c = "Slave" -> "slave"
      [] OTHER -> c
CaseInsensitiveRole(reply) ==
    LET roleLines == {n \in DOMAIN reply : IsRoleLine(reply[n])}
    IN  IF roleLines = {} THEN "Unknown"
        ELSE LET first == CHOOSE n \in roleLines : \A m \in roleLines : n <= m
                 text == trim(reply[first][2])
             IN  role_token([n \in DOMAIN text |-> LowerCase(text[n])])
C24_RoleIgnoresCase == pc = "info" => get_redis_role(info) = CaseInsensitiveRole(info)

\* --------------------------------------------------------------------- C25
\* C25: with a connection held (the flags differ), the step in which the query
\* returns a reply whose role text is none of master, slave, replica in any
\* letter case, or that has no role line, decides true and goes on to look for the dump file.
Unrecognized(reply) ==
    \A n \in DOMAIN reply :
       IsRoleLine(reply[n]) =>
          LET text == trim(reply[n][2])
          IN  [k \in DOMAIN text |-> LowerCase(text[k])]
                  \notin {<<"master">>, <<"slave">>, <<"replica">>}
C25_UnknownStep ==
    (pc = "info" /\ trace' = Append(trace, Event("info", TRUE, <<>>)) /\ Unrecognized(info))
        => /\ config.backup_master # config.backup_replica
           /\ should' = "true"
           /\ pc' = "exists"
           /\ result' = "none"
C25_UnknownRoleBacksUp == [][C25_UnknownStep]_vars
\* a replica-only node was answered with a role it does not know and goes on
C25_Witness ==
    /\ ~config.backup_master /\ config.backup_replica
    /\ pc = "exists"
    /\ should = "true"
    /\ OkCalls("info") # {}
    /\ info = << <<<<"role">>, <<"sentinel">>>> >>
    /\ dump.exists

\* --------------------------------------------------------------------- C26
\* C26: the step in which the query returns a role whose flag is false decides
\* false and returns Ok, leaving every metric, the bucket and the dump file as
\* they were; such a cycle has made no call but the query.
C26_RoleFlagOff ==
    \/ get_redis_role(info) = "Master" /\ ~config.backup_master
    \/ get_redis_role(info) = "Replica" /\ ~config.backup_replica
C26_SkipStep ==
    (pc = "info" /\ trace' = Append(trace, Event("info", TRUE, <<>>)) /\ C26_RoleFlagOff)
        => /\ should' = "false"
           /\ pc' = "returned"
           /\ result' = "ok"
           /\ metrics' = metrics
           /\ store' = store
           /\ dump' = dump
C26_Skipped ==
    should = "false" =>
        /\ Finished
        /\ result = "ok"
        /\ trace = <<Event("info", TRUE, <<>>)>>
C26_SkippedCycleIsNoOp == [](C26_Skipped) /\ [][C26_SkipStep]_vars
\* a cycle was skipped although the dump file was there, after a first cycle
\* that succeeded
C26_Witness ==
    /\ config.impl = "backup"
    /\ pc = "returned"
    /\ should = "false"
    /\ dump.exists
    /\ cycles = 2
    /\ metrics.backups_successful = 1
    /\ metrics.backups_failed = 0

\* --------------------------------------------------------------------- C27
\* C27: keep_last = 2 on five records with distinct timestamps keeps the two
\* newest (sorted indices 0 and 1) and leaves the other three; and in every
\* cleanup without keep_duration the kept set is exactly the first
\* min(keep_last, len) positions of the listing sorted newest first, and once
\* cleanup has returned a delete has been called for exactly the other records.
FiveRecords ==
    [n \in 1 .. 5 |-> [key |-> <<Digits[n]>>, timestamp |-> (n * 2) % 5]]
C27_Example ==
    LET sorted == sort_by(FiveRecords)
    IN  /\ [n \in 1 .. 5 |-> sorted[n].timestamp] = <<4, 3, 2, 1, 0>>
        /\ keep_set(sorted, 2, NoDuration, 0) = {1, 2}
        /\ {next_victim(sorted, keep_set(sorted, 2, NoDuration, 0), n) : n \in 1 .. 5} = {3, 4, 5}
C27_KeepsNewestKeepLast ==
    /\ C27_Example
    /\ (Partitioned /\ ~config.keep_duration.some) =>
          /\ SortedNewestFirst
          /\ keep_indices = 1 .. Min(config.keep_last, Len(backups))
          /\ Finished =>
                \A n \in DOMAIN backups :
                   (DeleteCallsFor(backups[n].key) # {}) <=> n > config.keep_last
\* keep_last = 2, the listing held more than two records and was not in
\* timestamp order when it was returned
C27_Witness ==
    /\ Finished
    /\ Partitioned
    /\ ~config.keep_duration.some
    /\ config.keep_last = 2
    /\ Len(backups) > 2
    /\ \E m, n \in DOMAIN backups : m < n /\ LexLess(backups[m].key, backups[n].key)

\* --------------------------------------------------------------------- C28
\* C28: with 24 h at hour 25, of the records of hour 24 and hour 0 only the
\* first is kept, and a record of hour 1 (the cutoff) is not; and in every
\* cleanup with keep_last = 0 and a keep_duration the kept set is exactly the
\* records whose timestamp is greater than the cutoff, and once cleanup has
\* returned a delete has been called for exactly the others.
Hours(d) == [some |-> TRUE, parses |-> TRUE, secs |-> d]
C28_Example ==
    /\ keep_set(<<[key |-> <<"a">>, timestamp |-> 24], [key |-> <<"b">>, timestamp |-> 0]>>,
                0, Hours(24), 25) = {1}
    /\ keep_set(<<[key |-> <<"a">>, timestamp |-> 1]>>, 0, Hours(24), 25) = {}
C28_KeepsNewerThanCutoff ==
    /\ C28_Example
    /\ (Partitioned /\ config.keep_last = 0 /\ config.keep_duration.some) =>
          /\ keep_indices = {n \in DOMAIN backups : backups[n].timestamp > cutoff}
          /\ pc = "delete" => cutoff = now - config.keep_duration.secs
          /\ Finished =>
                \A n \in DOMAIN backups :
                   (DeleteCallsFor(backups[n].key) # {}) <=> backups[n].timestamp <= cutoff
\* a record stamped exactly at the cutoff was deleted and a newer one kept
C28_Witness ==
    /\ Finished
    /\ Partitioned
    /\ config.keep_last = 0
    /\ config.keep_duration.some
    /\ \E n \in DOMAIN backups :
          backups[n].timestamp = cutoff /\ DeleteCallsFor(backups[n].key) # {}
    /\ \E n \in DOMAIN backups :
          backups[n].timestamp > cutoff /\ DeleteCallsFor(backups[n].key) = {}

\* --------------------------------------------------------------------- C29
\* C29: the first step of a cleanup adds one to the cleanup counter and no
\* other step changes it; the step in which the delete loop ends adds the
\* number of deletes of this cleanup that succeeded to the deleted counter and
\* no other step changes it; a cleanup that ends otherwise has deleted nothing.
C29_CounterStep ==
    config.impl = "backup" =>
        /\ metrics'.cleanup_operations_total =
              metrics.cleanup_operations_total + (IF pc = "cleanup" /\ pc' = "list" THEN 1 ELSE 0)
        /\ metrics'.backups_deleted_total =
              metrics.backups_deleted_total +
                 (IF pc = "delete" /\ pc' = "returned" THEN Cardinality(OkCalls("delete")) ELSE 0)
C29_EndsEarly ==
    (Finished /\ Calls("list") # {} /\ ~Partitioned) => Calls("delete") = {}
C29_CleanupCounters == [](C29_EndsEarly) /\ [][C29_CounterStep]_vars
\* a cleanup returned after one delete that failed and one that succeeded
C29_Witness ==
    /\ config.impl = "backup"
    /\ Finished
    /\ FailedCalls("delete") # {}
    /\ Cardinality(OkCalls("delete")) = 1
    /\ metrics.backups_deleted_total = 1
    /\ metrics.storage_deletes_total = 2
    /\ metrics.cleanup_operations_total = 1

\* --------------------------------------------------------------------- C30
\* C30: with a non-zero initial delay, with or without --once, whenever a
\* cycle has been started the initial sleep has lasted the whole delay.
C30_DelayBeforeFirstCycle ==
    (config.initial_delay.parses /\ config.initial_delay.ticks > 0) =>
        ((cycles > 0 \/ pc \in InCycle) => slept >= config.initial_delay.ticks)

\* --------------------------------------------------------------------- C36
\* C36: the step in which cleanup's listing fails, or ends with a keep_duration
\* that does not parse, returns the error to the scheduler and changes no
\* counter, the success of the cycle having been counted when the upload
\* returned; no delete is called in such a cycle; and in every state the
\* success counter plus the failure counter is at most the attempt counter.
C36_CleanupFails ==
    /\ pc = "list"
    /\ pc' = "returned"
C36_CleanupFailsStep ==
    C36_CleanupFails =>
        /\ result' = "err"
        /\ \/ trace' = Append(trace, Event("list", FALSE, <<>>))
           \/ config.keep_duration.some /\ ~config.keep_duration.parses
        /\ metrics' = metrics
        /\ store' = store
        /\ Calls("delete") = {}
C36_Counters ==
    config.impl = "backup" =>
        /\ metrics.backups_successful + metrics.backups_failed <= metrics.backups_total
        /\ pc \in {"cleanup", "list", "delete"} => metrics.backups_successful >= 1
        /\ (Finished /\ Calls("list") # {} /\ ~Partitioned) =>
              /\ result = "err"
              /\ Calls("delete") = {}
              /\ metrics.backups_successful >= 1
C36_CleanupErrorAfterSuccess == [](C36_Counters) /\ [][C36_CleanupFailsStep]_vars
\* the only cycle of a run returned the error of a failed listing: one
\* attempt, one success, no failure
C36_Witness ==
    /\ config.impl = "backup"
    /\ pc = "returned"
    /\ result = "err"
    /\ LastCallIs(Event("list", FALSE, <<>>))
    /\ metrics.backups_total = 1
    /\ metrics.backups_successful = 1
    /\ metrics.backups_failed = 0

\* --------------------------------------------------------------------- C39
\* C39: with --once, the step after a cycle that returned an error makes run
\* return Ok, and run never returns an error once its durations have parsed.
C39_FailedOnceStep == (once /\ pc = "returned" /\ result = "err") => pc' = "exit"
C39_OnceNeverFails ==
    (once /\ config.interval.parses /\ config.initial_delay.parses) => pc # "failed"
C39_OnceReturnsOk == [](C39_OnceNeverFails) /\ [][C39_FailedOnceStep]_vars
\* run returned Ok after a cycle whose INFO query failed
C39_Witness ==
    /\ once
    /\ pc = "exit"
    /\ result = "err"
    /\ FailedCalls("info") # {}

\* --------------------------------------------------------------------- C32
\* C32: when a cycle with keep_last >= 1 has uploaded and returned Ok, the
\* object it uploaded is in the bucket.
C32_UploadSurvivesCleanup ==
    (Finished /\ result = "ok" /\ config.keep_last >= 1 /\ OkCalls("upload") # {})
        => \E o \in store : o.key = key

\* --------------------------------------------------------------------- C33
\* C33: every record cleanup lists and every object it calls delete for has a
\* key this node builds: the prefix, this node's name, "_", and the rest.
OwnKey(k) == StartsWith(k, node_prefix \o <<"_">>)
C33_OnlyOwnObjects ==
    /\ \A n \in DOMAIN backups : OwnKey(backups[n].key)
    /\ \A n \in Calls("delete") : OwnKey(trace[n].key)

\* --------------------------------------------------------------------- C37
\* C37: on S3, no object is recorded twice by the listing, the listing makes
\* no more requests than the objects under the prefix have pages, and when it
\* has returned Ok its records are exactly those objects; also when the store
\* sends truncated pages without a continuation token.
Pages(n) == IF n = 0 THEN 1 ELSE (n + PageSize - 1) \div PageSize
C37_S3ListsEachOnce ==
    config.storage = "S3" =>
        /\ \A m, n \in DOMAIN backups : m # n => backups[m].key # backups[n].key
        /\ pc = "list" =>
              Cardinality(OkCalls("list")) < Pages(Cardinality(Under(store, node_prefix)))
        /\ (ListingDone /\ LastCallIs(Event("list", TRUE, <<>>))) =>
              Range(backups) = Under(store, node_prefix)

\* --------------------------------------------------------------------- C34
\* C34: while the cycle awaits a storage call (the upload, a list request or a
\* delete), the scheduler task holds no write guard on the metrics, so that a
\* scrape waiting for the read lock is not held up by the storage call.
StorageCallPending ==
    \/ pc \in {"upload", "list"}
    \/ pc = "delete" /\ next_victim(backups, keep_indices, i) # 0
C34_NoGuardOverStorageCall == StorageCallPending => read_ready(write_guard)

\* --------------------------------------------------------------------- C35
\* C35: wherever the next step of backup.rs's cycle or cleanup begins by
\* requesting the metrics write lock (the attempt counter, the upload and
\* duration counters, the cleanup counter, the deleted counter), the task
\* holds no write guard: the earlier guard has been released.
AcquiresNext ==
    \/ pc \in {"perform_backup", "metadata", "read", "upload", "cleanup"}
    \/ pc = "delete" /\ next_victim(backups, keep_indices, i) = 0 /\ deleted_count > 0
C35_GuardReleasedBeforeNext == (config.impl = "backup" /\ AcquiresNext) => ~write_guard

\* the delete loop has held the guard over a delete and released it, and the
\* deleted counter is about to take the lock again
C35_Witness ==
    /\ config.impl = "backup"
    /\ pc = "delete"
    /\ next_victim(backups, keep_indices, i) = 0
    /\ deleted_count > 0
    /\ metrics.storage_deletes_total > 0
    /\ ~write_guard

\* --------------------------------------------------------------------- C31
\* C31: a step in which the metrics server handles a request (a scrape, a
\* health check or an unknown route) changes neither a counter, gauge or
\* histogram nor any state of the backup (bucket, dump file, position and
\* locals of the cycle, guard of the scheduler), at whatever point of a cycle
\* it is taken; and the metrics are read only while no write guard is out.
C31_HandleStep ==
    requests' # requests =>
        /\ UNCHANGED <<metrics, write_guard, store, dump, now, info, pc, next_interval, slept,
                       locals, should, result, cycles, trace, hist, inputs>>
        /\ http_response'.samples # <<>> => ~write_guard
C31_RequestsOnlyRead == [][C31_HandleStep]_vars

\* the metrics have been scraped in the middle of a cycle of backup.rs's manager
C31_Witness ==
    /\ requests > 0
    /\ http_response.status = 200
    /\ http_response.samples = gather(metrics)
    /\ metrics.backups_total > 0
    /\ pc \in InCycle

\* --------------------------------------------------------------------- C38
\* C38: in a run of the loop every cycle starts in a second that begins at an
\* interval boundary; a cycle after the first starts at the first boundary
\* strictly after the previous cycle finished, however many boundaries that
\* cycle ran past; and no two cycles start at the same boundary.
Boundary(t) == t % config.interval.ticks = 0
StartSlot(n) == (runs[n].start \div TicksPerSecond) * TicksPerSecond
C38_MissedSlotsSkipped ==
    /\ \A n \in DOMAIN runs : Boundary(StartSlot(n))
    /\ \A n \in DOMAIN runs : n > 1 =>
          /\ StartSlot(n) > runs[n - 1].finish
          /\ \A t \in (runs[n - 1].finish + 1) .. (StartSlot(n) - 1) : ~Boundary(t)
    /\ \A m, n \in DOMAIN runs : m # n => StartSlot(m) # StartSlot(n)

====
